---- MODULE Spec2Model ----
(***************************************************************************)
(* Bookstore data-access core: the in-memory entity store (MockDatabase),  *)
(* its relationship helpers, the graph list queries, and the request       *)
(* counting of the REST and GraphQL client examples.                       *)
(* Prices are integer cents.                                               *)
(***************************************************************************)
EXTENDS Integers, Sequences, FiniteSets, TLC

VARIABLES authors, books, customers, orders, statuses, issued, nops, last,
          inflight, overlapped,
          main_pc, server_pc, server_socket, client_socket, handshake,
          accept_queue, client_conn, to_server, to_client, events

vars == <<authors, books, customers, orders, statuses, issued, nops, last,
          inflight, overlapped,
          main_pc, server_pc, server_socket, client_socket, handshake,
          accept_queue, client_conn, to_server, to_client, events>>

\* the socket demonstration: its two threads, its sockets and the connection
sockets == <<main_pc, server_pc, server_socket, client_socket, handshake,
             accept_queue, client_conn, to_server, to_client, events>>

\* the create calls in flight on unserialized threads
races == <<inflight, overlapped>>

\* everything the bookstore's single-threaded operations never touch
threads == <<races, sockets>>

store == <<authors, books, customers, orders>>

(* ------------------------------ bounds --------------------------------- *)

\* mutations of the store in one run of the store specification
MaxOps == 4

\* mutations in one run of the customers-only specification
MaxCustomerOps == 5

\* mutations that may precede the reads in the query specification
MaxSetup == 1

\* largest limit argument tried in a list query
MaxLimit == 2

\* create calls started on the unserialized threads
MaxRaceCalls == 3

\* status transitions applied in the order-status specification
MaxStatusOps == 3

(* ------------------------------ records -------------------------------- *)

Author(id, name, bio, birth_year) ==
    [id |-> id, name |-> name, bio |-> bio, birth_year |-> birth_year]

Book(id, title, author_id, price, genre, published_year, isbn) ==
    [id |-> id, title |-> title, author_id |-> author_id, price |-> price,
     genre |-> genre, published_year |-> published_year, isbn |-> isbn]

Customer(id, name, email) ==
    [id |-> id, name |-> name, email |-> email]

Order(id, customer_id, book_ids, total_amount) ==
    [id |-> id, customer_id |-> customer_id, book_ids |-> book_ids,
     total_amount |-> total_amount]

\* the status attribute of an order, kept by order id: orders are pending
\* until a status transition is applied
OrderStatus(order) == statuses[order.id]

(* ------------------------------ seed data ------------------------------ *)

SeedAuthors ==
    << Author(1, "J.K. Rowling", "British author best known for Harry Potter series", 1965),
       Author(2, "George Orwell", "English novelist and journalist", 1903),
       Author(3, "Jane Austen", "English novelist of romantic fiction", 1775),
       Author(4, "Stephen King", "American author of horror and supernatural fiction", 1947),
       Author(5, "Agatha Christie", "English writer known for detective novels", 1890) >>

SeedBooks ==
    << Book(1, "Harry Potter and the Philosopher's Stone", 1, 2999, "Fantasy", 1997, "978-0439708180"),
       Book(2, "Harry Potter and the Chamber of Secrets", 1, 3299, "Fantasy", 1998, "978-0439064873"),
       Book(3, "1984", 2, 1999, "Dystopian Fiction", 1949, "978-0451524935"),
       Book(4, "Animal Farm", 2, 1599, "Allegorical Fiction", 1945, "978-0451526342"),
       Book(5, "Pride and Prejudice", 3, 2299, "Romance", 1813, "978-0141439518"),
       Book(6, "The Shining", 4, 2499, "Horror", 1977, "978-0307743657"),
       Book(7, "It", 4, 2799, "Horror", 1986, "978-1501142970"),
       Book(8, "Murder on the Orient Express", 5, 1899, "Mystery", 1934, "978-0062693662"),
       Book(9, "And Then There Were None", 5, 1699, "Mystery", 1939, "978-0062073488") >>

SeedCustomers ==
    << Customer(1, "Alice Johnson", "alice@example.com"),
       Customer(2, "Bob Smith", "bob@example.com"),
       Customer(3, "Carol Davis", "carol@example.com"),
       Customer(4, "David Wilson", "david@example.com") >>

SeedOrders ==
    << Order(1, 1, <<1, 2>>, 6298),
       Order(2, 1, <<3>>, 1999),
       Order(3, 2, <<5, 8>>, 4198),
       Order(4, 3, <<6, 7>>, 5298),
       Order(5, 4, <<4, 9>>, 3298) >>

(* ------------------------------ helpers -------------------------------- *)

\* the absent value (Python None)
None == [absent |-> TRUE]

Ids(coll) == {coll[i].id : i \in 1..Len(coll)}

\* max(x.id for x in coll); only evaluated on a non-empty collection
MaxId(coll) == CHOOSE m \in Ids(coll) : \A n \in Ids(coll) : n <= m

\* max() of an empty sequence raises ValueError
MaxRaises(coll) == coll = <<>>

NewIdNoIncrement(coll) == MaxId(coll)

NewId(coll) == MaxId(coll) + 1

get_by_id_falling_back_to_last(coll, id) ==
    IF \E i \in 1..Len(coll) : coll[i].id = id
    THEN coll[CHOOSE i \in 1..Len(coll) : coll[i].id = id]
    ELSE IF coll = <<>> THEN None ELSE coll[Len(coll)]

\* next(x for x in coll if x.id == id, None): the first match, or None
get_by_id(coll, id) ==
    IF \E i \in 1..Len(coll) : coll[i].id = id
    THEN coll[CHOOSE i \in 1..Len(coll) :
                 /\ coll[i].id = id
                 /\ \A j \in 1..(i - 1) : coll[j].id # id]
    ELSE None

get_book_by_id(book_id) == get_by_id(books, book_id)

get_customer_by_id(customer_id) == get_by_id(customers, customer_id)

get_author_by_id(author_id) == get_by_id(authors, author_id)

get_order_by_id(order_id) == get_by_id(orders, order_id)

(* ------------------------------ inputs --------------------------------- *)

\* author_id arguments of create_book: an existing author and an unknown one
BookAuthorInputs == {1, 7}

\* customer_id arguments of create_order: an existing customer and an unknown one
OrderCustomerInputs == {1, 9}

\* book_ids arguments of create_order: empty, the seed pair, a repeated book,
\* and an id that resolves only once a tenth book exists
OrderBookIdsInputs == { <<>>, <<1, 2>>, <<2, 2>>, <<10, 1>> }

DeleteAuthorInputs == {1, 6}

DeleteBookInputs == {1, 9, 10}

DeleteCustomerInputs == {1, 2, 3, 4, 5}

(* ------------------------------ state ---------------------------------- *)

\* two request threads of a multi-threaded front end
Threads == {1, 2}

\* a thread with no create call in flight
Idle == [pc |-> "idle"]

Kinds == {"authors", "books", "customers", "orders"}

NoOp == [op |-> "init", kind |-> "", id |-> 0, ok |-> TRUE, args |-> <<>>, out |-> <<>>]

\* a direction of the connection: what was sent and is still on its way, and
\* what has arrived and was not read yet
NoTraffic == [wire |-> <<>>, buffer |-> <<>>]

\* demonstrate_socket_basics is at its first socket call and simple_server was
\* not started
InitSockets ==
    /\ main_pc = 1
    /\ server_pc = 0
    /\ server_socket = "none"
    /\ client_socket = "none"
    /\ handshake = "none"
    /\ accept_queue = 0
    /\ client_conn = "none"
    /\ to_server = NoTraffic
    /\ to_client = NoTraffic
    /\ events = <<>>

Init ==
    /\ authors = SeedAuthors
    /\ books = SeedBooks
    /\ customers = SeedCustomers
    /\ orders = SeedOrders
    /\ statuses = [id \in Ids(SeedOrders) |-> "pending"]
    /\ issued = [k \in Kinds |-> {}]
    /\ nops = 0
    /\ last = NoOp
    /\ inflight = [t \in Threads |-> Idle]
    /\ overlapped = FALSE
    /\ InitSockets

\* what a create that returned new entity e of kind k leaves behind
Created(k, e, args) ==
    /\ issued' = [issued EXCEPT ![k] = @ \cup {e.id}]
    /\ nops' = nops + 1
    /\ statuses' = IF k = "orders" THEN (e.id :> "pending") @@ statuses ELSE statuses
    /\ UNCHANGED threads
    /\ last' = [op |-> "create", kind |-> k, id |-> e.id, ok |-> TRUE,
                args |-> args, out |-> <<e>>]

\* what a create that raised ValueError leaves behind: nothing was appended
CreateRaised(k, args) ==
    /\ UNCHANGED <<issued, nops>>
    /\ UNCHANGED <<statuses, threads>>
    /\ last' = [op |-> "create", kind |-> k, id |-> 0, ok |-> FALSE,
                args |-> args, out |-> <<"ValueError">>]

(* ------------------------------ create --------------------------------- *)

create_book_registering_author(bound, title, author_id, price, genre, published_year, isbn) ==
    /\ nops < bound
    /\ ~MaxRaises(books)
    /\ LET new_book == Book(NewId(books), title, author_id, price, genre,
                            published_year, isbn)
       IN  /\ books' = Append(books, new_book)
           /\ Created("books", new_book, <<author_id>>)
    /\ authors' = IF author_id \in Ids(authors) THEN authors
                  ELSE Append(authors, Author(author_id, "Unknown", "", 0))
    /\ UNCHANGED <<customers, orders>>

create_book(bound, title, author_id, price, genre, published_year, isbn) ==
    /\ nops < bound
    /\ IF MaxRaises(books)
       THEN /\ CreateRaised("books", <<author_id>>)
            /\ UNCHANGED books
       ELSE LET new_id == NewId(books)
                new_book == Book(new_id, title, author_id, price, genre,
                                 published_year, isbn)
            IN  /\ books' = Append(books, new_book)
                /\ Created("books", new_book, <<author_id>>)
    /\ UNCHANGED <<authors, customers, orders>>

create_customer_inserting_first(bound, name, email) ==
    /\ nops < bound
    /\ ~MaxRaises(customers)
    /\ LET new_customer == Customer(NewId(customers), name, email)
       IN  /\ customers' = <<new_customer>> \o customers
           /\ Created("customers", new_customer, <<>>)
    /\ UNCHANGED <<authors, books, orders>>

create_customer(bound, name, email) ==
    /\ nops < bound
    /\ IF MaxRaises(customers)
       THEN /\ CreateRaised("customers", <<>>)
            /\ UNCHANGED customers
       ELSE LET new_id == NewId(customers)
                new_customer == Customer(new_id, name, email)
            IN  /\ customers' = Append(customers, new_customer)
                /\ Created("customers", new_customer, <<>>)
    /\ UNCHANGED <<authors, books, orders>>

\* total = 0.0; for book_id in book_ids: book = get_book_by_id(book_id);
\* if book: total += book.price
RECURSIVE OrderTotalFrom(_, _)
OrderTotalFrom(total, book_ids) ==
    IF book_ids = <<>> THEN total
    ELSE LET book == get_book_by_id(Head(book_ids))
         IN  OrderTotalFrom(IF book # None THEN total + book.price ELSE total,
                            Tail(book_ids))

OrderTotalOncePerBook(book_ids) ==
    LET S == {book_ids[i] : i \in 1..Len(book_ids)}
        RECURSIVE Sum(_)
        Sum(T) == IF T = {} THEN 0
                  ELSE LET b == CHOOSE x \in T : TRUE
                       IN  (IF get_book_by_id(b) # None
                            THEN get_book_by_id(b).price ELSE 0) + Sum(T \ {b})
    IN  Sum(S)

OrderTotal(book_ids) == OrderTotalFrom(0, book_ids)

create_order_recomputing_totals(bound, customer_id, book_ids) ==
    /\ nops < bound
    /\ LET new_order == Order(NewId(orders), customer_id, book_ids, OrderTotal(book_ids))
           all == Append(orders, new_order)
       IN  /\ orders' = [i \in 1..Len(all) |->
                            [all[i] EXCEPT !.total_amount = OrderTotal(all[i].book_ids)]]
           /\ Created("orders", new_order, <<customer_id, book_ids>>)
    /\ UNCHANGED <<authors, books, customers>>

create_order(bound, customer_id, book_ids) ==
    /\ nops < bound
    /\ IF MaxRaises(orders)
       THEN /\ CreateRaised("orders", <<customer_id, book_ids>>)
            /\ UNCHANGED orders
       ELSE LET new_id == NewId(orders)
                new_order == Order(new_id, customer_id, book_ids,
                                   OrderTotal(book_ids))
            IN  /\ orders' = Append(orders, new_order)
                /\ Created("orders", new_order, <<customer_id, book_ids>>)
    /\ UNCHANGED <<authors, books, customers>>

\* the store's create for authors, by the store contract: id = max + 1, or 1
\* for an empty collection
create_author(bound, name, bio) ==
    /\ nops < bound
    /\ LET new_id == IF authors = <<>> THEN 1 ELSE MaxId(authors) + 1
           new_author == Author(new_id, name, bio, 0)
       IN  /\ authors' = Append(authors, new_author)
           /\ Created("authors", new_author, <<>>)
    /\ UNCHANGED <<books, customers, orders>>

(* ------------------------------ delete --------------------------------- *)

RemoveId(coll, id) == SelectSeq(coll, LAMBDA e : e.id # id)

DeleteResultAlwaysTrue(coll, id) == TRUE

\* delete(kind, id) returns whether an entity with that id was present
DeleteResult(coll, id) == id \in Ids(coll)

\* what a delete of id from kind k leaves behind, the collection aside
Deleted(k, coll, id) ==
    /\ nops' = IF id \in Ids(coll) THEN nops + 1 ELSE nops
    /\ UNCHANGED <<statuses, threads>>
    /\ last' = [op |-> "delete", kind |-> k, id |-> id,
                ok |-> DeleteResult(coll, id), args |-> <<id>>, out |-> <<>>]
    /\ UNCHANGED issued

delete_author(bound, id) ==
    /\ nops < bound
    /\ authors' = RemoveId(authors, id)
    /\ Deleted("authors", authors, id)
    /\ UNCHANGED <<books, customers, orders>>

delete_book(bound, id) ==
    /\ nops < bound
    /\ books' = RemoveId(books, id)
    /\ Deleted("books", books, id)
    /\ UNCHANGED <<authors, customers, orders>>

delete_customer(bound, id) ==
    /\ nops < bound
    /\ customers' = RemoveId(customers, id)
    /\ Deleted("customers", customers, id)
    /\ UNCHANGED <<authors, books, orders>>

(* ------------------------------ update --------------------------------- *)

UpdateBookInputs == {1, 10}

\* update(kind, id, fields) on books: the matched book takes the new price
\* (its other fields are resupplied unchanged); nothing changes for an unknown
\* id, and the result is the updated book or the absent value
update_book(bound, id, price) ==
    /\ nops < bound
    /\ books' = [i \in 1..Len(books) |->
                    IF books[i].id = id THEN [books[i] EXCEPT !.price = price]
                    ELSE books[i]]
    /\ nops' = IF id \in Ids(books) THEN nops + 1 ELSE nops
    /\ UNCHANGED <<statuses, threads>>
    /\ last' = [op |-> "update", kind |-> "books", id |-> id,
                ok |-> id \in Ids(books), args |-> <<id, price>>,
                out |-> IF id \in Ids(books)
                        THEN <<[get_book_by_id(id) EXCEPT !.price = price]>>
                        ELSE <<None>>]
    /\ UNCHANGED <<authors, customers, orders, issued>>

(* ------------------------------ store specification -------------------- *)

Next ==
    \/ \E a \in BookAuthorInputs :
          create_book(MaxOps, "New Book", a, 1000, "Fantasy", 2024, "978-0000000000")
    \/ create_customer(MaxOps, "Eve Adams", "eve@example.com")
    \/ \E c \in OrderCustomerInputs, b \in OrderBookIdsInputs :
          create_order(MaxOps, c, b)
    \/ create_author(MaxOps, "New Author", "bio")
    \/ \E id \in DeleteAuthorInputs : delete_author(MaxOps, id)
    \/ \E id \in DeleteBookInputs : delete_book(MaxOps, id)
    \/ \E id \in DeleteCustomerInputs : delete_customer(MaxOps, id)
    \/ \E id \in UpdateBookInputs : update_book(MaxOps, id, 500)

Spec == Init /\ [][Next]_vars

(* ------------------------------ store reads ---------------------------- *)

get_books_by_author_matching_book_id(author_id) ==
    SelectSeq(books, LAMBDA book : book.id = author_id)

\* [book for book in self.books if book.author_id == author_id]
get_books_by_author(author_id) ==
    SelectSeq(books, LAMBDA book : book.author_id = author_id)

\* [order for order in self.orders if order.customer_id == customer_id]
get_orders_by_customer(customer_id) ==
    SelectSeq(orders, LAMBDA order : order.customer_id = customer_id)

RECURSIVE BooksForIds(_)
BooksForIds(book_ids) ==
    IF book_ids = <<>> THEN <<>>
    ELSE LET book == get_book_by_id(Head(book_ids))
         IN  (IF book # None THEN <<book>> ELSE <<>>) \o BooksForIds(Tail(book_ids))

RECURSIVE BooksForIdsUnfiltered(_)
BooksForIdsUnfiltered(book_ids) ==
    IF book_ids = <<>> THEN <<>>
    ELSE <<get_book_by_id(Head(book_ids))>> \o BooksForIdsUnfiltered(Tail(book_ids))

get_books_for_order_unfiltered(order) == BooksForIdsUnfiltered(order.book_ids)

\* [get_book_by_id(id) for id in order.book_ids if get_book_by_id(id)]
get_books_for_order(order) == BooksForIds(order.book_ids)

\* str.lower() on the genre strings of the seed data and of the inputs
Lower(s) ==
    CASE s \in {"Fantasy", "FANTASY", "fantasy"} -> "fantasy"
      [] s \in {"Horror", "horror"} -> "horror"
      [] s \in {"Mystery", "mystery"} -> "mystery"
      [] s \in {"Romance", "romance"} -> "romance"
      [] s \in {"Dystopian Fiction", "dystopian fiction"} -> "dystopian fiction"
      [] s \in {"Allegorical Fiction", "allegorical fiction"} -> "allegorical fiction"

\* [book for book in self.books if book.genre.lower() == genre.lower()]
get_books_by_genre(genre) ==
    SelectSeq(books, LAMBDA book : Lower(book.genre) = Lower(genre))

\* self.get_author_by_id(book.author_id)
get_author_for_book(book) == get_author_by_id(book.author_id)

\* self.get_customer_by_id(order.customer_id)
get_customer_for_order(order) == get_customer_by_id(order.customer_id)

Read(op, args, out) ==
    /\ UNCHANGED <<statuses, threads>>
    /\ last' = [op |-> op, kind |-> "", id |-> 0, ok |-> TRUE,
                args |-> args, out |-> out]
    /\ UNCHANGED <<authors, books, customers, orders, issued, nops>>

call_get_books_by_author_filtering_in_place(author_id) ==
    /\ books' = get_books_by_author(author_id)
    /\ UNCHANGED <<statuses, threads>>
    /\ last' = [op |-> "get_books_by_author", kind |-> "", id |-> 0, ok |-> TRUE,
                args |-> <<author_id>>, out |-> get_books_by_author(author_id)]
    /\ UNCHANGED <<authors, customers, orders, issued, nops>>

call_get_books_by_author(author_id) ==
    Read("get_books_by_author", <<author_id>>, get_books_by_author(author_id))

call_get_books_by_genre(genre) ==
    Read("get_books_by_genre", <<genre>>, get_books_by_genre(genre))

call_get_orders_by_customer(customer_id) ==
    Read("get_orders_by_customer", <<customer_id>>, get_orders_by_customer(customer_id))

call_get_author_for_book(book) ==
    Read("get_author_for_book", <<book>>, <<get_author_for_book(book)>>)

call_get_customer_for_order(order) ==
    Read("get_customer_for_order", <<order>>, <<get_customer_for_order(order)>>)

call_get_books_for_order(order) ==
    Read("get_books_for_order", <<order>>, get_books_for_order(order))

\* get_all_authors / get_all_books / get_all_customers / get_all_orders return
\* the list itself
get_all_authors == authors

get_all_books == books

get_all_customers == customers

get_all_orders == orders

get_all(kind) ==
    CASE kind = "authors" -> get_all_authors
      [] kind = "books" -> get_all_books
      [] kind = "customers" -> get_all_customers
      [] kind = "orders" -> get_all_orders

call_get_all(kind) == Read("get_all", <<kind>>, get_all(kind))

\* ids looked up: below the seed ids, seed ids, and ids past the seed data
LookupIdInputs == {0, 1, 4, 5, 6, 9, 10}

\* get_author_by_id / get_book_by_id / get_customer_by_id / get_order_by_id
call_get_by_id(kind, id) ==
    Read("get_by_id", <<kind, id>>,
         << CASE kind = "authors" -> get_author_by_id(id)
              [] kind = "books" -> get_book_by_id(id)
              [] kind = "customers" -> get_customer_by_id(id)
              [] kind = "orders" -> get_order_by_id(id) >>)

(* ------------------------------ graph list queries --------------------- *)

\* An optional argument is <<>> when omitted (None) and <<v>> when given.
\* Python truth of an Optional[int] or Optional[str]: None, 0 and "" are false.
TruthyInt(opt) == opt # <<>> /\ opt[1] # 0

TruthyStr(opt) == opt # <<>> /\ opt[1] # ""

\* seq[:n]
Slice(seq, n) ==
    IF n >= 0
    THEN SubSeq(seq, 1, IF n < Len(seq) THEN n ELSE Len(seq))
    ELSE SubSeq(seq, 1, IF Len(seq) + n > 0 THEN Len(seq) + n ELSE 0)

\* Query.books(limit, author_id, genre)
QueryBooks(limit, author_id, genre) ==
    LET by_author == IF TruthyInt(author_id) THEN get_books_by_author(author_id[1])
                     ELSE books
        by_genre == IF TruthyStr(genre)
                    THEN SelectSeq(by_author, LAMBDA book : book.genre = genre[1])
                    ELSE by_author
    IN  IF TruthyInt(limit) THEN Slice(by_genre, limit[1]) ELSE by_genre

\* Query.orders(limit, customer_id, status)
QueryOrders(limit, customer_id, status) ==
    LET by_customer == IF TruthyInt(customer_id)
                       THEN get_orders_by_customer(customer_id[1])
                       ELSE orders
        by_status == IF TruthyStr(status)
                     THEN SelectSeq(by_customer, LAMBDA order : OrderStatus(order) = status[1])
                     ELSE by_customer
    IN  IF TruthyInt(limit) THEN Slice(by_status, limit[1]) ELSE by_status

\* Query.authors(limit)
QueryAuthors(limit) ==
    IF TruthyInt(limit) THEN Slice(get_all_authors, limit[1]) ELSE get_all_authors

\* Query.customers(limit)
QueryCustomers(limit) ==
    IF TruthyInt(limit) THEN Slice(get_all_customers, limit[1]) ELSE get_all_customers

query_authors(limit) == Read("query_authors", <<limit>>, QueryAuthors(limit))

query_customers(limit) == Read("query_customers", <<limit>>, QueryCustomers(limit))

query_books(limit, author_id, genre) ==
    Read("query_books", <<limit, author_id, genre>>, QueryBooks(limit, author_id, genre))

query_orders(limit, customer_id, status) ==
    Read("query_orders", <<limit, customer_id, status>>,
         QueryOrders(limit, customer_id, status))

(* ------------------------------ REST client ---------------------------- *)

\* the "items" of an order as the REST client reads them: one item per entry
\* of book_ids
OrderItems(order) == [i \in 1..Len(order.book_ids) |-> [book_id |-> order.book_ids[i]]]

\* for item in order["items"]: GET /books/{book_id}; request_count += 1
RECURSIVE ItemRequests(_)
ItemRequests(items) ==
    IF items = <<>> THEN <<>>
    ELSE << <<"GET", "books", Head(items).book_id>> >> \o ItemRequests(Tail(items))

\* for order in orders_data: ...
RECURSIVE OrderRequests(_)
OrderRequests(orders_data) ==
    IF orders_data = <<>> THEN <<>>
    ELSE ItemRequests(OrderItems(Head(orders_data))) \o OrderRequests(Tail(orders_data))

RECURSIVE Dedup(_)
Dedup(seq) ==
    IF seq = <<>> THEN <<>>
    ELSE LET rest == Dedup(SubSeq(seq, 1, Len(seq) - 1))
             x == seq[Len(seq)]
         IN  IF \E i \in 1..Len(rest) : rest[i] = x THEN rest ELSE Append(rest, x)

\* len(response.content) of the server's answer to a request: the server the
\* client talks to sends one entity, a list of entities, or an error body
ContentLength(request) ==
    CASE request[2] = "customers" ->
           IF get_customer_by_id(request[3]) # None THEN 80 ELSE 30
      [] request[2] = "orders" -> 2 + 120 * Len(get_orders_by_customer(request[3]))
      [] request[2] = "books" ->
           IF get_book_by_id(request[3]) # None THEN 150 ELSE 30
      [] request[2] = "authors" ->
           IF get_author_by_id(request[3]) # None THEN 110 ELSE 30
      [] request[2] = "books?author_id" ->
           2 + 150 * Len(get_books_by_author(request[3]))
      [] request[2] = "books?search" -> 2 + 150 * Len(request[3])

\* total_bytes += len(book_response.content), once per item
RECURSIVE ItemBytes(_)
ItemBytes(items) ==
    IF items = <<>> THEN 0
    ELSE ContentLength(<<"GET", "books", Head(items).book_id>>) + ItemBytes(Tail(items))

RECURSIVE OrderBytes(_)
OrderBytes(orders_data) ==
    IF orders_data = <<>> THEN 0
    ELSE ItemBytes(OrderItems(Head(orders_data))) + OrderBytes(Tail(orders_data))

RestSummaryBytesWithoutOrders(customer_id) ==
    ContentLength(<<"GET", "customers", customer_id>>)
    + OrderBytes(get_orders_by_customer(customer_id))

\* total_bytes of RESTBookstoreClient.get_customer_order_summary
RestSummaryBytes(customer_id) ==
    ContentLength(<<"GET", "customers", customer_id>>)
    + ContentLength(<<"GET", "orders", customer_id>>)
    + OrderBytes(get_orders_by_customer(customer_id))

RestSummaryRequestsOncePerBook(customer_id) ==
    << <<"GET", "customers", customer_id>>, <<"GET", "orders", customer_id>> >>
    \o Dedup(OrderRequests(get_orders_by_customer(customer_id)))

\* the requests RESTBookstoreClient.get_customer_order_summary sends, in order
RestSummaryRequests(customer_id) ==
    << <<"GET", "customers", customer_id>>, <<"GET", "orders", customer_id>> >>
    \o OrderRequests(get_orders_by_customer(customer_id))

\* request_count starts at 0 and is incremented once after each request
rest_get_customer_order_summary(customer_id) ==
    LET sent == RestSummaryRequests(customer_id)
    IN  Read("rest_get_customer_order_summary", <<customer_id>>,
             <<[total_requests |-> Len(sent), requests |-> sent,
                total_bytes |-> RestSummaryBytes(customer_id)]>>)

\* the requests RESTBookstoreClient.get_author_with_books sends
RestAuthorRequests(author_id) ==
    << <<"GET", "authors", author_id>>, <<"GET", "books?author_id", author_id>> >>

\* "total_requests": 2, "total_bytes": len(author_response.content) +
\* len(books_response.content)
rest_get_author_with_books(author_id) ==
    Read("rest_get_author_with_books", <<author_id>>,
         <<[total_requests |-> 2, requests |-> RestAuthorRequests(author_id),
            total_bytes |-> ContentLength(<<"GET", "authors", author_id>>)
                            + ContentLength(<<"GET", "books?author_id", author_id>>)]>>)

\* for book in books_data: GET /authors/{author_id}; request_count += 1
RECURSIVE AuthorRequests(_)
AuthorRequests(books_data) ==
    IF books_data = <<>> THEN <<>>
    ELSE << <<"GET", "authors", Head(books_data).author_id>> >>
         \o AuthorRequests(Tail(books_data))

RestSearchRequestsOncePerAuthor(books_data) ==
    << <<"GET", "books?search", books_data>> >> \o Dedup(AuthorRequests(books_data))

\* the requests RESTBookstoreClient.search_books_with_authors sends when the
\* search answers with books_data
RestSearchRequests(books_data) ==
    << <<"GET", "books?search", books_data>> >> \o AuthorRequests(books_data)

\* total_bytes += len(author_response.content), once per book
RECURSIVE AuthorBytes(_)
AuthorBytes(books_data) ==
    IF books_data = <<>> THEN 0
    ELSE ContentLength(<<"GET", "authors", Head(books_data).author_id>>)
         + AuthorBytes(Tail(books_data))

RestSearchBytes(books_data) ==
    ContentLength(<<"GET", "books?search", books_data>>) + AuthorBytes(books_data)

rest_search_books_with_authors(books_data) ==
    LET sent == RestSearchRequests(books_data)
    IN  Read("rest_search_books_with_authors", <<books_data>>,
             <<[total_requests |-> Len(sent), requests |-> sent,
                total_bytes |-> RestSearchBytes(books_data)]>>)

(* ------------------------------ GraphQL client ------------------------- *)

GraphQLSummaryPostsPerItem(customer_id) ==
    [i \in 1..Len(RestSummaryRequests(customer_id)) |->
        <<"POST", "graphql", "GetCustomerOrderSummary", customer_id>>]

\* the requests GraphQLBookstoreClient.get_customer_order_summary sends: one
\* session.post carrying the whole query
GraphQLSummaryPosts(customer_id) ==
    << <<"POST", "graphql", "GetCustomerOrderSummary", customer_id>> >>

GraphQLAuthorPostsPerBook(author_id) ==
    [i \in 1..(1 + Len(get_books_by_author(author_id))) |->
        <<"POST", "graphql", "GetAuthorWithBooks", author_id>>]

\* the requests GraphQLBookstoreClient.get_author_with_books sends
GraphQLAuthorPosts(author_id) ==
    << <<"POST", "graphql", "GetAuthorWithBooks", author_id>> >>

\* result["total_requests"] = 1
gql_get_customer_order_summary(customer_id) ==
    LET sent == GraphQLSummaryPosts(customer_id)
    IN  Read("gql_get_customer_order_summary", <<customer_id>>,
             <<[total_requests |-> 1, requests |-> sent]>>)

gql_get_author_with_books(author_id) ==
    LET sent == GraphQLAuthorPosts(author_id)
    IN  Read("gql_get_author_with_books", <<author_id>>,
             <<[total_requests |-> 1, requests |-> sent]>>)

(* ------------------------------ REST adapter: views -------------------- *)

\* Author.to_dict / Customer.to_dict: the fields under their own names
AuthorToDict(author) == author

CustomerToDict(customer) == customer

BookToDictWithNullAuthor(book, include_author, author) ==
    IF include_author
    THEN book @@ [author |-> IF author # None THEN AuthorToDict(author) ELSE None]
    ELSE book

\* Book.to_dict(include_author, author): "author" is set only
\* if include_author and author
BookToDict(book, include_author, author) ==
    IF include_author /\ author # None
    THEN book @@ [author |-> AuthorToDict(author)]
    ELSE book

OrderToDictWithEmptyBooks(order, include_customer, include_books, customer, order_books) ==
    LET with_customer == IF include_customer /\ customer # None
                         THEN order @@ [customer |-> CustomerToDict(customer)]
                         ELSE order
    IN  IF include_books
        THEN with_customer @@
             [books |-> [i \in 1..Len(order_books) |->
                            BookToDict(order_books[i], FALSE, None)]]
        ELSE with_customer

\* Order.to_dict(include_customer, include_books, customer, books): "customer"
\* is set only if include_customer and customer, "books" only if include_books
\* and books (None and the empty list are false; every caller that sets
\* include_books passes a list)
OrderToDict(order, include_customer, include_books, customer, order_books) ==
    LET with_customer == IF include_customer /\ customer # None
                         THEN order @@ [customer |-> CustomerToDict(customer)]
                         ELSE order
    IN  IF include_books /\ order_books # <<>>
        THEN with_customer @@
             [books |-> [i \in 1..Len(order_books) |->
                            BookToDict(order_books[i], FALSE, None)]]
        ELSE with_customer

Response(status, body) == <<[status |-> status, body |-> body]>>

\* GET /api/books/<book_id>?include_author=...
RestGetBook(book_id, include_author) ==
    LET book == get_book_by_id(book_id)
    IN  IF book = None THEN Response(404, [error |-> "Book not found"])
        ELSE IF include_author
             THEN Response(200, BookToDict(book, TRUE, get_author_for_book(book)))
             ELSE Response(200, BookToDict(book, FALSE, None))

\* GET /api/orders/<order_id>?include_customer=...&include_books=...
RestGetOrder(order_id, include_customer, include_books) ==
    LET order == get_order_by_id(order_id)
    IN  IF order = None THEN Response(404, [error |-> "Order not found"])
        ELSE LET customer == IF include_customer THEN get_customer_for_order(order)
                             ELSE None
                 order_books == IF include_books THEN get_books_for_order(order)
                                ELSE None
             IN  Response(200, OrderToDict(order, include_customer, include_books,
                                           customer, order_books))

rest_get_book(book_id, include_author) ==
    Read("rest_get_book", <<book_id, include_author>>,
         RestGetBook(book_id, include_author))

rest_get_order(order_id, include_customer, include_books) ==
    Read("rest_get_order", <<order_id, include_customer, include_books>>,
         RestGetOrder(order_id, include_customer, include_books))

\* GET /api/authors/<author_id>
RestGetAuthor(author_id) ==
    LET author == get_author_by_id(author_id)
    IN  IF author = None THEN Response(404, [error |-> "Author not found"])
        ELSE Response(200, AuthorToDict(author))

RestGetAuthorBooksWithoutParentCheck(author_id) ==
    LET found == get_books_by_author(author_id)
    IN  Response(200, [i \in 1..Len(found) |-> BookToDict(found[i], FALSE, None)])

\* GET /api/authors/<author_id>/books
RestGetAuthorBooks(author_id) ==
    LET author == get_author_by_id(author_id)
        found == get_books_by_author(author_id)
    IN  IF author = None THEN Response(404, [error |-> "Author not found"])
        ELSE Response(200, [i \in 1..Len(found) |-> BookToDict(found[i], FALSE, None)])

\* GET /api/customers/<customer_id>
RestGetCustomer(customer_id) ==
    LET customer == get_customer_by_id(customer_id)
    IN  IF customer = None THEN Response(404, [error |-> "Customer not found"])
        ELSE Response(200, CustomerToDict(customer))

\* GET /api/customers/<customer_id>/orders?include_books=...
RestGetCustomerOrders(customer_id, include_books) ==
    LET customer == get_customer_by_id(customer_id)
        found == get_orders_by_customer(customer_id)
    IN  IF customer = None THEN Response(404, [error |-> "Customer not found"])
        ELSE Response(200,
                 [i \in 1..Len(found) |->
                     IF include_books
                     THEN OrderToDict(found[i], FALSE, TRUE, None,
                                      get_books_for_order(found[i]))
                     ELSE OrderToDict(found[i], FALSE, FALSE, None, None)])

rest_get_author(author_id) ==
    Read("rest_get_author", <<author_id>>, RestGetAuthor(author_id))

rest_get_author_books(author_id) ==
    Read("rest_get_author_books", <<author_id>>, RestGetAuthorBooks(author_id))

rest_get_customer(customer_id) ==
    Read("rest_get_customer", <<customer_id>>, RestGetCustomer(customer_id))

rest_get_customer_orders(customer_id, include_books) ==
    Read("rest_get_customer_orders", <<customer_id, include_books>>,
         RestGetCustomerOrders(customer_id, include_books))

(* ------------------------------ REST adapter: POST --------------------- *)

\* a request body is a JSON object: a function from the field names it
\* carries to their values
Without(data, fields) == [f \in (DOMAIN data) \ fields |-> data[f]]

RequiredBookFields == <<"title", "author_id", "price", "genre", "published_year", "isbn">>

RequiredCustomerFields == <<"name", "email">>

RequiredOrderFields == <<"customer_id", "book_ids">>

\* for field in required_fields: if field not in data: return 400
Missing(required_fields, data) ==
    SelectSeq(required_fields, LAMBDA field : field \notin DOMAIN data)

MissingField(required_fields, data) ==
    Response(400, [error |-> "Missing required field",
                   field |-> Head(Missing(required_fields, data))])

\* what a rejected POST leaves behind (a rejected request is not counted
\* against the bound on changes of the store)
Rejected(op, kind, data, response) ==
    /\ UNCHANGED <<statuses, threads>>
    /\ last' = [op |-> op, kind |-> kind, id |-> 0, ok |-> FALSE,
                args |-> <<data>>, out |-> response]
    /\ UNCHANGED <<authors, books, customers, orders, issued, nops>>

\* what a POST answered with 201 and the new entity's view leaves behind
Accepted(op, kind, data, e, view) ==
    /\ issued' = [issued EXCEPT ![kind] = @ \cup {e.id}]
    /\ nops' = nops + 1
    /\ statuses' = IF kind = "orders" THEN (e.id :> "pending") @@ statuses ELSE statuses
    /\ UNCHANGED threads
    /\ last' = [op |-> op, kind |-> kind, id |-> e.id, ok |-> TRUE,
                args |-> <<data>>, out |-> Response(201, view)]

\* POST /api/books
rest_create_book(bound, data) ==
    /\ IF Missing(RequiredBookFields, data) # <<>>
       THEN Rejected("rest_create_book", "books", data,
                     MissingField(RequiredBookFields, data))
       ELSE IF MaxRaises(books)
       THEN Rejected("rest_create_book", "books", data,
                     Response(400, [error |-> "ValueError"]))
       ELSE LET new_book == Book(NewId(books), data.title, data.author_id, data.price,
                                 data.genre, data.published_year, data.isbn)
            IN  /\ nops < bound
                /\ books' = Append(books, new_book)
                /\ Accepted("rest_create_book", "books", data, new_book,
                            BookToDict(new_book, FALSE, None))
                /\ UNCHANGED <<authors, customers, orders>>

\* POST /api/customers
rest_create_customer(bound, data) ==
    /\ IF Missing(RequiredCustomerFields, data) # <<>>
       THEN Rejected("rest_create_customer", "customers", data,
                     MissingField(RequiredCustomerFields, data))
       ELSE IF MaxRaises(customers)
       THEN Rejected("rest_create_customer", "customers", data,
                     Response(400, [error |-> "ValueError"]))
       ELSE LET new_customer == Customer(NewId(customers), data.name, data.email)
            IN  /\ nops < bound
                /\ customers' = Append(customers, new_customer)
                /\ Accepted("rest_create_customer", "customers", data, new_customer,
                            CustomerToDict(new_customer))
                /\ UNCHANGED <<authors, books, orders>>

RECURSIVE Reversed(_)
Reversed(seq) == IF seq = <<>> THEN <<>> ELSE Append(Reversed(Tail(seq)), Head(seq))

UnknownBookIdsLastFirst(book_ids) ==
    Reversed(SelectSeq(book_ids, LAMBDA book_id : get_book_by_id(book_id) = None))

\* for book_id in data["book_ids"]: if not db.get_book_by_id(book_id): 404
UnknownBookIds(book_ids) ==
    SelectSeq(book_ids, LAMBDA book_id : get_book_by_id(book_id) = None)

\* POST /api/orders
rest_create_order(bound, data) ==
    /\ IF Missing(RequiredOrderFields, data) # <<>>
       THEN Rejected("rest_create_order", "orders", data,
                     MissingField(RequiredOrderFields, data))
       ELSE IF get_customer_by_id(data.customer_id) = None
       THEN Rejected("rest_create_order", "orders", data,
                     Response(404, [error |-> "Customer not found"]))
       ELSE IF UnknownBookIds(data.book_ids) # <<>>
       THEN Rejected("rest_create_order", "orders", data,
                     Response(404, [error |-> "Book not found",
                                    book_id |-> Head(UnknownBookIds(data.book_ids))]))
       ELSE IF MaxRaises(orders)
       THEN Rejected("rest_create_order", "orders", data,
                     Response(400, [error |-> "ValueError"]))
       ELSE LET new_order == Order(NewId(orders), data.customer_id, data.book_ids,
                                   OrderTotal(data.book_ids))
            IN  /\ nops < bound
                /\ orders' = Append(orders, new_order)
                /\ Accepted("rest_create_order", "orders", data, new_order,
                            OrderToDict(new_order, FALSE, FALSE, None, None))
                /\ UNCHANGED <<authors, books, customers>>

\* request bodies: the complete body, the body lacking one field, and {}
Bodies(full) ==
    {full, Without(full, DOMAIN full)} \cup {Without(full, {f}) : f \in DOMAIN full}

BookBodyInputs ==
    UNION { Bodies([title |-> "New Book", author_id |-> a, price |-> 1000,
                    genre |-> "Fantasy", published_year |-> 2024,
                    isbn |-> "978-0000000000"]) : a \in BookAuthorInputs }

CustomerBodyInputs == Bodies([name |-> "Eve Adams", email |-> "eve@example.com"])

OrderBodyInputs ==
    UNION { Bodies([customer_id |-> c, book_ids |-> b]) :
               c \in OrderCustomerInputs, b \in OrderBookIdsInputs }

(* ------------------------------ graph resolvers ------------------------ *)

\* database.get_author(id) / database.get_customer(id) of the graph adapter's
\* store: the entity with that id, or nothing
database_get_author(id) == get_by_id(authors, id)

database_get_customer(id) == get_by_id(customers, id)

\* Book.author: Author(**author_data) if author_data else None
BookAuthor(book) ==
    LET author_data == database_get_author(book.author_id)
    IN  IF author_data # None THEN author_data ELSE None

\* Order.customer: Customer(**customer_data) if customer_data else None
OrderCustomer(order) ==
    LET customer_data == database_get_customer(order.customer_id)
    IN  IF customer_data # None THEN customer_data ELSE None

resolve_book_author(book) == Read("Book.author", <<book>>, <<BookAuthor(book)>>)

resolve_order_customer(order) == Read("Order.customer", <<order>>, <<OrderCustomer(order)>>)

(* ------------------------------ query specification -------------------- *)

Opt(S) == {<<>>} \cup {<<v>> : v \in S}

AuthorIdInputs == {1, 2, 7}

CustomerIdInputs == {1, 2, 9}

GenreInputs == {"Fantasy", "fantasy", "Horror"}

StatusInputs == {"pending", "shipped"}

NextQuery ==
    \/ \E a \in BookAuthorInputs :
          create_book(MaxSetup, "New Book", a, 1000, "Fantasy", 2024, "978-0000000000")
    \/ create_customer(MaxSetup, "Eve Adams", "eve@example.com")
    \/ \E c \in OrderCustomerInputs, b \in OrderBookIdsInputs :
          create_order(MaxSetup, c, b)
    \/ create_author(MaxSetup, "New Author", "bio")
    \/ \E id \in DeleteAuthorInputs : delete_author(MaxSetup, id)
    \/ \E id \in DeleteBookInputs : delete_book(MaxSetup, id)
    \/ \E id \in DeleteCustomerInputs : delete_customer(MaxSetup, id)
    \/ \E id \in UpdateBookInputs : update_book(MaxSetup, id, 500)
    \/ \E a \in AuthorIdInputs : call_get_books_by_author(a)
    \/ \E k \in Kinds, id \in LookupIdInputs : call_get_by_id(k, id)
    \/ \E k \in Kinds : call_get_all(k)
    \/ \E g \in GenreInputs : call_get_books_by_genre(g)
    \/ \E c \in CustomerIdInputs : call_get_orders_by_customer(c)
    \/ \E i \in 1..Len(books) : call_get_author_for_book(books[i])
    \/ \E i \in 1..Len(orders) : call_get_customer_for_order(orders[i])
    \/ \E i \in 1..Len(orders) : call_get_books_for_order(orders[i])
    \/ \E l \in Opt(0..MaxLimit), a \in Opt(AuthorIdInputs), g \in Opt(GenreInputs) :
          query_books(l, a, g)
    \/ \E l \in Opt(0..MaxLimit), c \in Opt(CustomerIdInputs), s \in Opt(StatusInputs) :
          query_orders(l, c, s)
    \/ \E l \in Opt(0..MaxLimit) : query_authors(l)
    \/ \E l \in Opt(0..MaxLimit) : query_customers(l)
    \/ \E c \in CustomerIdInputs : rest_get_customer_order_summary(c)
    \/ \E c \in CustomerIdInputs : gql_get_customer_order_summary(c)
    \/ \E a \in AuthorIdInputs : gql_get_author_with_books(a)

SpecQuery == Init /\ [][NextQuery]_vars

(* ------------------------------ adapter specification ------------------ *)

\* up to MaxSetup changes of the store, through the store or through a REST
\* POST, then the REST routes and the graph resolvers of the two references
\* book ids deleted before the REST views are read: 3 is the only book of
\* seed order 2
RestDeleteBookInputs == DeleteBookInputs \cup {3}

NextRest ==
    \/ \E a \in BookAuthorInputs :
          create_book(MaxSetup, "New Book", a, 1000, "Fantasy", 2024, "978-0000000000")
    \/ create_customer(MaxSetup, "Eve Adams", "eve@example.com")
    \/ \E c \in OrderCustomerInputs, b \in OrderBookIdsInputs :
          create_order(MaxSetup, c, b)
    \/ create_author(MaxSetup, "New Author", "bio")
    \/ \E id \in DeleteAuthorInputs : delete_author(MaxSetup, id)
    \/ \E id \in RestDeleteBookInputs : delete_book(MaxSetup, id)
    \/ \E id \in DeleteCustomerInputs : delete_customer(MaxSetup, id)
    \/ \E id \in UpdateBookInputs : update_book(MaxSetup, id, 500)
    \/ \E data \in BookBodyInputs : rest_create_book(MaxSetup, data)
    \/ \E data \in CustomerBodyInputs : rest_create_customer(MaxSetup, data)
    \/ \E data \in OrderBodyInputs : rest_create_order(MaxSetup, data)
    \/ \E i \in 1..Len(books) : call_get_author_for_book(books[i])
    \/ \E i \in 1..Len(orders) : call_get_customer_for_order(orders[i])
    \/ \E id \in LookupIdInputs, a \in BOOLEAN : rest_get_book(id, a)
    \/ \E id \in LookupIdInputs, c \in BOOLEAN, b \in BOOLEAN : rest_get_order(id, c, b)
    \/ \E id \in LookupIdInputs : rest_get_author(id)
    \/ \E id \in LookupIdInputs : rest_get_author_books(id)
    \/ \E id \in LookupIdInputs : rest_get_customer(id)
    \/ \E id \in LookupIdInputs, b \in BOOLEAN : rest_get_customer_orders(id, b)
    \/ \E i \in 1..Len(books) : resolve_book_author(books[i])
    \/ \E i \in 1..Len(orders) : resolve_order_customer(orders[i])

SpecRest == Init /\ [][NextRest]_vars

(* ------------------------------ order status --------------------------- *)

UpdateOrderStatusAllowedAny(id, new_status) == id \in Ids(orders)

\* the transitions the store defines: pending -> shipped, pending -> cancelled
UpdateOrderStatusAllowed(id, new_status) ==
    /\ id \in Ids(orders)
    /\ statuses[id] = "pending"
    /\ new_status \in {"shipped", "cancelled"}

\* database.update_order_status(id, status): the order when the transition
\* was applied, nothing when it was rejected
database_update_order_status(id, new_status) ==
    IF UpdateOrderStatusAllowed(id, new_status) THEN get_order_by_id(id) ELSE None

StatusesAfter(id, new_status) ==
    IF UpdateOrderStatusAllowed(id, new_status)
    THEN [statuses EXCEPT ![id] = new_status]
    ELSE statuses

StatusChanged(op, id, args, applied, out) ==
    /\ nops' = IF applied THEN nops + 1 ELSE nops
    /\ last' = [op |-> op, kind |-> "orders", id |-> id, ok |-> applied,
                args |-> args, out |-> out]
    /\ UNCHANGED <<authors, books, customers, orders, issued, threads>>

\* Mutation.update_order_status(id, status):
\* Order(**order_data) if order_data else None
update_order_status(bound, id, new_status) ==
    /\ nops < bound
    /\ LET order_data == database_update_order_status(id, new_status)
       IN  /\ statuses' = StatusesAfter(id, new_status)
           /\ StatusChanged("update_order_status", id, <<id, new_status>>,
                            order_data # None,
                            <<IF order_data # None THEN order_data ELSE None>>)

\* Mutation.cancel_order(id):
\* database.update_order_status(id, "cancelled") is not None
cancel_order(bound, id) ==
    /\ nops < bound
    /\ LET order_data == database_update_order_status(id, "cancelled")
       IN  /\ statuses' = StatusesAfter(id, "cancelled")
           /\ StatusChanged("cancel_order", id, <<id>>, order_data # None,
                            <<order_data # None>>)

StatusOrderIdInputs == {1, 2, 6, 9}

NewStatusInputs == {"pending", "shipped", "cancelled", "delivered"}

NextOrders ==
    \/ \E c \in OrderCustomerInputs, b \in OrderBookIdsInputs :
          create_order(MaxStatusOps, c, b)
    \/ \E id \in StatusOrderIdInputs, s \in NewStatusInputs :
          update_order_status(MaxStatusOps, id, s)
    \/ \E id \in StatusOrderIdInputs : cancel_order(MaxStatusOps, id)

SpecOrders == Init /\ [][NextOrders]_vars

(* ------------------------------ unserialized creates ------------------- *)

\* create_customer on thread t, as the two steps another thread can run
\* between: the read of the largest id, then the append
InFlight(t) == inflight[t].pc = "read"

create_customer_read_reusing_max(t, name, email) ==
    /\ nops < MaxRaceCalls
    /\ ~InFlight(t)
    /\ ~MaxRaises(customers)
    /\ inflight' = [inflight EXCEPT ![t] =
                       [pc |-> "read", new_id |-> MaxId(customers),
                        seen |-> Len(customers), name |-> name, email |-> email]]
    /\ overlapped' = (overlapped \/ \E u \in Threads \ {t} : InFlight(u))
    /\ nops' = nops + 1
    /\ UNCHANGED <<authors, books, customers, orders, statuses, issued, last,
                   sockets>>

\* new_id = max(customer.id for customer in self.customers) + 1
create_customer_read(t, name, email) ==
    /\ nops < MaxRaceCalls
    /\ ~InFlight(t)
    /\ ~MaxRaises(customers)
    /\ inflight' = [inflight EXCEPT ![t] =
                       [pc |-> "read", new_id |-> NewId(customers),
                        seen |-> Len(customers), name |-> name, email |-> email]]
    /\ overlapped' = (overlapped \/ \E u \in Threads \ {t} : InFlight(u))
    /\ nops' = nops + 1
    /\ UNCHANGED <<authors, books, customers, orders, statuses, issued, last,
                   sockets>>

\* customer = Customer(new_id, ...); self.customers.append(customer)
create_customer_append(t) ==
    /\ InFlight(t)
    /\ LET new_customer == Customer(inflight[t].new_id, inflight[t].name,
                                    inflight[t].email)
       IN  /\ customers' = Append(customers, new_customer)
           /\ issued' = [issued EXCEPT !["customers"] = @ \cup {new_customer.id}]
           /\ last' = [op |-> "create", kind |-> "customers", id |-> new_customer.id,
                       ok |-> TRUE, args |-> <<t>>, out |-> <<new_customer>>]
    /\ inflight' = [inflight EXCEPT ![t] = Idle]
    /\ UNCHANGED <<authors, books, orders, statuses, nops, overlapped, sockets>>

RaceNameInputs == {"Eve Adams", "Frank Moore"}

NextRace ==
    \/ \E t \in Threads, name \in RaceNameInputs :
          create_customer_read(t, name, "new@example.com")
    \/ \E t \in Threads : create_customer_append(t)

SpecRace == Init /\ [][NextRace]_vars

(* ------------------------------ graph query execution ------------------ *)

\* A selection is the set of paths of relation fields a query selects below
\* its root field, each path a sequence of field names: the query
\* customer(id) { orders { items { book } } } selects
\* {<<"orders">>, <<"orders", "items">>, <<"orders", "items", "book">>}.
SelectsWithAuthorAlways(sel, field) == <<field>> \in sel \/ field = "author"

\* a field's resolver runs only when the selection names the field at this
\* entity
Selects(sel, field) == <<field>> \in sel

\* the selection below a selected field
Below(sel, field) == {Tail(p) : p \in {q \in sel : q # <<>> /\ Head(q) = field}} \ {<<>>}

database_get_book(id) == get_by_id(books, id)

database_get_order(id) == get_by_id(orders, id)

Lookup(rel, path, key) == [rel |-> rel, path |-> path, key |-> key]

\* the store lookups made while the fields selected on one entity of type typ
\* are resolved, in order; path is the path of fields that led to the entity
RECURSIVE Lookups(_, _, _, _)
RECURSIVE LookupsEach(_, _, _, _)
Lookups(typ, entity, sel, path) ==
    CASE typ = "Author" ->
           IF Selects(sel, "books")
           THEN <<Lookup("Author.books", Append(path, "books"), entity.id)>>
                \o LookupsEach("Book", get_books_by_author(entity.id),
                               Below(sel, "books"), Append(path, "books"))
           ELSE <<>>
      [] typ = "Book" ->
           IF Selects(sel, "author")
           THEN <<Lookup("Book.author", Append(path, "author"), entity.author_id)>>
                \o (IF BookAuthor(entity) # None
                    THEN Lookups("Author", BookAuthor(entity), Below(sel, "author"),
                                 Append(path, "author"))
                    ELSE <<>>)
           ELSE <<>>
      [] typ = "Customer" ->
           IF Selects(sel, "orders")
           THEN <<Lookup("Customer.orders", Append(path, "orders"), entity.id)>>
                \o LookupsEach("Order", get_orders_by_customer(entity.id),
                               Below(sel, "orders"), Append(path, "orders"))
           ELSE <<>>
      [] typ = "Order" ->
           (IF Selects(sel, "customer")
            THEN <<Lookup("Order.customer", Append(path, "customer"), entity.customer_id)>>
                 \o (IF OrderCustomer(entity) # None
                     THEN Lookups("Customer", OrderCustomer(entity),
                                  Below(sel, "customer"), Append(path, "customer"))
                     ELSE <<>>)
            ELSE <<>>)
           \o (IF Selects(sel, "items")
               THEN LookupsEach("OrderItem", OrderItems(entity), Below(sel, "items"),
                                Append(path, "items"))
               ELSE <<>>)
      [] typ = "OrderItem" ->
           IF Selects(sel, "book")
           THEN <<Lookup("OrderItem.book", Append(path, "book"), entity.book_id)>>
           ELSE <<>>

LookupsEach(typ, entities, sel, path) ==
    IF entities = <<>> THEN <<>>
    ELSE Lookups(typ, Head(entities), sel, path)
         \o LookupsEach(typ, Tail(entities), sel, path)

\* Query.author / Query.book / Query.customer / Query.order: one lookup of the
\* root entity, then the fields selected on it
RootType == [author |-> "Author", book |-> "Book", customer |-> "Customer",
             order |-> "Order"]

RootEntity(root, id) ==
    CASE root = "author" -> database_get_author(id)
      [] root = "book" -> database_get_book(id)
      [] root = "customer" -> database_get_customer(id)
      [] root = "order" -> database_get_order(id)

GraphLookups(root, id, sel) ==
    <<Lookup(root, <<>>, id)>>
    \o (IF RootEntity(root, id) # None
        THEN Lookups(RootType[root], RootEntity(root, id), sel, <<>>)
        ELSE <<>>)

graph_query(root, id, sel) ==
    Read("graph_query", <<root, id, sel>>, GraphLookups(root, id, sel))

\* the selections tried, by root field
SelectionInputs ==
    [author |-> { {}, {<<"books">>}, {<<"books">>, <<"books", "author">>} },
     book |-> { {}, {<<"author">>}, {<<"author">>, <<"author", "books">>} },
     customer |-> { {}, {<<"orders">>},
                    {<<"orders">>, <<"orders", "customer">>},
                    {<<"orders">>, <<"orders", "items">>},
                    {<<"orders">>, <<"orders", "items">>,
                     <<"orders", "items", "book">>} },
     order |-> { {}, {<<"customer">>}, {<<"items">>},
                 {<<"items">>, <<"items", "book">>},
                 {<<"customer">>, <<"customer", "orders">>, <<"items">>} }]

GraphIdInputs == {1, 2, 6}

NextGraph ==
    \/ \E a \in BookAuthorInputs :
          create_book(MaxSetup, "New Book", a, 1000, "Fantasy", 2024, "978-0000000000")
    \/ \E c \in OrderCustomerInputs, b \in OrderBookIdsInputs :
          create_order(MaxSetup, c, b)
    \/ \E id \in DeleteAuthorInputs : delete_author(MaxSetup, id)
    \/ \E id \in DeleteBookInputs : delete_book(MaxSetup, id)
    \/ \E id \in DeleteCustomerInputs : delete_customer(MaxSetup, id)
    \/ \E root \in DOMAIN SelectionInputs, id \in GraphIdInputs :
          \E sel \in SelectionInputs[root] : graph_query(root, id, sel)

SpecGraph == Init /\ [][NextGraph]_vars

(* ------------------------------ graph search ---------------------------- *)

\* Text that is searched is a sequence of one-letter strings, so that letter
\* case and substrings can be computed.
LowerChar(c) ==
    CASE c \in {"a", "A"} -> "a"
      [] c \in {"b", "B"} -> "b"

\* str.lower()
LowerText(text) == [i \in 1..Len(text) |-> LowerChar(text[i])]

\* needle in haystack
Contains(haystack, needle) ==
    \E i \in 0..(Len(haystack) - Len(needle)) :
        SubSeq(haystack, i + 1, i + Len(needle)) = needle

\* book.get("description"): the value, or None without the key
GetDescription(book) ==
    IF "description" \in DOMAIN book THEN book.description ELSE None

\* the default of search_books' limit argument
DefaultSearchLimit == 10

\* query.lower() in book["title"].lower() or (book.get("description") and
\* query.lower() in book["description"].lower())
SearchMatches(book, query) ==
    \/ Contains(LowerText(book.title), LowerText(query))
    \/ /\ GetDescription(book) # None
       /\ GetDescription(book) # <<>>
       /\ Contains(LowerText(book.description), LowerText(query))

\* Query.search_books(query, limit); given is false when the call leaves the
\* limit out
SearchBooks(query, given, limit) ==
    LET matching_books == SelectSeq(books, LAMBDA book : SearchMatches(book, query))
        used == IF given THEN limit ELSE DefaultSearchLimit
    IN  IF used # 0 THEN Slice(matching_books, used) ELSE matching_books

search_books(query, given, limit) ==
    Read("search_books", <<query, given, limit>>, SearchBooks(query, given, limit))

TitleInputs == { <<"A", "b">>, <<"b">>, <<"a", "a">> }

\* no description, an empty one, and one with text
DescribedInputs(book) ==
    {book, book @@ [description |-> <<>>], book @@ [description |-> <<"B", "a">>]}

SearchBookInputs(id) ==
    UNION { DescribedInputs(Book(id, title, 1, 1000, "Fantasy", 2024, "978-0000000000")) :
               title \in TitleInputs }

\* the collections searched: every pair of books, and eleven books that all
\* match "a", one more than the default limit
SearchCollections ==
    { <<b1, b2>> : b1 \in SearchBookInputs(1), b2 \in SearchBookInputs(2) }
    \cup { [i \in 1..(DefaultSearchLimit + 1) |->
               Book(i, <<"a", "a">>, 1, 1000, "Fantasy", 2024, "978-0000000000")] }

QueryInputs == { <<>>, <<"a">>, <<"B">>, <<"a", "B">> }

InitSearch ==
    /\ authors = SeedAuthors
    /\ books \in SearchCollections
    /\ customers = SeedCustomers
    /\ orders = SeedOrders
    /\ statuses = [id \in Ids(SeedOrders) |-> "pending"]
    /\ issued = [k \in Kinds |-> {}]
    /\ nops = 0
    /\ last = NoOp
    /\ inflight = [t \in Threads |-> Idle]
    /\ overlapped = FALSE
    /\ InitSockets

NextSearch ==
    \/ \E query \in QueryInputs : search_books(query, FALSE, 0)
    \/ \E query \in QueryInputs, limit \in 0..MaxLimit : search_books(query, TRUE, limit)

SpecSearch == InitSearch /\ [][NextSearch]_vars

(* ------------------------------ client specification ------------------- *)

\* what the server's search may answer with: nothing, the two books of author
\* 1, the books in stock of two authors, every book
SearchResultInputs ==
    { <<>>, get_books_by_author(1),
      get_books_by_author(1) \o get_books_by_author(4), books }

NextClient ==
    \/ \E a \in BookAuthorInputs :
          create_book(MaxSetup, "New Book", a, 1000, "Fantasy", 2024, "978-0000000000")
    \/ \E c \in OrderCustomerInputs, b \in OrderBookIdsInputs :
          create_order(MaxSetup, c, b)
    \/ \E id \in DeleteAuthorInputs : delete_author(MaxSetup, id)
    \/ \E id \in DeleteBookInputs : delete_book(MaxSetup, id)
    \/ \E id \in DeleteCustomerInputs : delete_customer(MaxSetup, id)
    \/ \E a \in AuthorIdInputs : rest_get_author_with_books(a)
    \/ \E c \in CustomerIdInputs : rest_get_customer_order_summary(c)
    \/ \E found \in SearchResultInputs : rest_search_books_with_authors(found)

SpecClient == Init /\ [][NextClient]_vars

(* ------------------------------ customers-only specification ----------- *)

NextCustomers ==
    \/ create_customer(MaxCustomerOps, "Eve Adams", "eve@example.com")
    \/ \E id \in DeleteCustomerInputs : delete_customer(MaxCustomerOps, id)

SpecCustomers == Init /\ [][NextCustomers]_vars

(* ------------------------------ properties ----------------------------- *)

Coll(k) ==
    CASE k = "authors" -> authors
      [] k = "books" -> books
      [] k = "customers" -> customers
      [] k = "orders" -> orders

Range(seq) == {seq[i] : i \in 1..Len(seq)}

RECURSIVE SumOver(_, _)
SumOver(f, S) ==
    IF S = {} THEN 0
    ELSE LET x == CHOOSE y \in S : TRUE IN f[x] + SumOver(f, S \ {x})

\* the price of the book with id b in the current books collection, nothing
\* when no book has that id
PriceOf(b) ==
    IF \E i \in 1..Len(books) : books[i].id = b
    THEN (CHOOSE book \in Range(books) : book.id = b).price
    ELSE 0

\* one term per position of book_ids
SumOfPrices(book_ids) ==
    SumOver([i \in 1..Len(book_ids) |-> PriceOf(book_ids[i])], 1..Len(book_ids))

\* C1: every create on books, customers or orders succeeds and assigns
\* id = (maximum id in the collection before the call) + 1, or 1 when the
\* collection was empty.
C1_CreateAssignsMaxPlusOne ==
    [][\A k \in {"books", "customers", "orders"} :
          (last'.op = "create" /\ last'.kind = k)
          => /\ last'.ok
             /\ last'.id = IF Coll(k) = <<>> THEN 1 ELSE MaxId(Coll(k)) + 1]_vars

\* C2: a create never returns an id that an earlier create of the same
\* collection returned, and returns one larger than all of them, whatever was
\* deleted in between.
C2_NoIdReuse ==
    [][(last'.op = "create" /\ last'.ok)
       => \A j \in issued[last'.kind] : j < last'.id]_vars

\* C3: in every reachable state the ids of each collection are positive
\* integers and pairwise distinct.
C3_IdsPositiveDistinct ==
    \A k \in Kinds :
        \A i, j \in 1..Len(Coll(k)) :
            /\ Coll(k)[i].id \in Nat \ {0}
            /\ (i # j => Coll(k)[i].id # Coll(k)[j].id)

\* a book was created after the book with the largest id had been deleted
C3_Witness ==
    /\ last.op = "create" /\ last.kind = "books" /\ last.ok
    /\ last.id = 9
    /\ Len(books) = 9

\* C8: a delete of an id that is not in the collection returns false and
\* leaves all four collections as they were (so repeating it changes nothing).
C8_FailedDeleteNoEffect ==
    [][\A k \in {"authors", "books", "customers"} :
          (last'.op = "delete" /\ last'.kind = k /\ last'.id \notin Ids(Coll(k)))
          => (last'.ok = FALSE /\ store' = store)]_vars

\* a delete failed in a store that earlier mutations had changed
C8_Witness ==
    /\ last.op = "delete" /\ ~last.ok
    /\ last.id \notin Ids(Coll(last.kind))
    /\ nops > 0

C4_BooksOfAuthor ==
    last.op = "get_books_by_author"
    => LET a == last.args[1]
           r == last.out
           Pos(b) == CHOOSE j \in 1..Len(books) : books[j] = b
       IN  /\ \A i \in 1..Len(r) : r[i] \in Range(books) /\ r[i].author_id = a
           /\ \A j \in 1..Len(books) :
                 books[j].author_id = a
                 => Cardinality({i \in 1..Len(r) : r[i] = books[j]}) = 1
           /\ \A i1, i2 \in 1..Len(r) : i1 < i2 => Pos(r[i1]) < Pos(r[i2])

\* the books of an author were read after a book of that author was created
C4_Witness ==
    /\ last.op = "get_books_by_author"
    /\ last.args = <<1>>
    /\ Len(last.out) = 3
    /\ Len(books) > Len(last.out)

\* C5: get_books_for_order(order) is no longer than order.book_ids, holds no
\* absent element, and holds, for each position of book_ids whose id resolves,
\* the book of that id, in the order of those positions.
C5_BooksInOrder ==
    last.op = "get_books_for_order"
    => LET ids == last.args[1].book_ids
           r == last.out
           P == {i \in 1..Len(ids) : ids[i] \in Ids(books)}
       IN  /\ Len(r) <= Len(ids)
           /\ Len(r) = Cardinality(P)
           /\ \A k \in 1..Len(r) : r[k] # None /\ r[k] \in Range(books)
           /\ \A i \in P : r[Cardinality({j \in P : j <= i})].id = ids[i]

\* the books of an order were read while one of its ids resolved and another
\* did not
C5_Witness ==
    /\ last.op = "get_books_for_order"
    /\ Len(last.out) = 1
    /\ Len(last.args[1].book_ids) = 2

\* the orders of customer c, and the number of items they hold in all
ItemsOf(c) ==
    LET mine == {i \in 1..Len(orders) : orders[i].customer_id = c}
    IN  SumOver([i \in mine |-> Len(orders[i].book_ids)], mine)

DistinctBooksOf(c) ==
    UNION {Range(orders[i].book_ids) :
              i \in {j \in 1..Len(orders) : orders[j].customer_id = c}}

\* C6 as stated: the REST summary of a customer reports 2 + the number of
\* distinct book ids across the customer's order items.
C6_RestRequestsDistinctBooks ==
    last.op = "rest_get_customer_order_summary"
    => last.out[1].total_requests = 2 + Cardinality(DistinctBooksOf(last.args[1]))

\* C6 as amended: the REST summary of a customer reports 2 + the number of
\* order items across the customer's orders, one request per item, and that is
\* the number of requests sent.
C6_RestRequestsPerItem ==
    last.op = "rest_get_customer_order_summary"
    => /\ last.out[1].total_requests = 2 + ItemsOf(last.args[1])
       /\ last.out[1].total_requests = Len(last.out[1].requests)

\* a summary was fetched for a customer whose items repeat a book
C6_Witness ==
    /\ last.op = "rest_get_customer_order_summary"
    /\ ItemsOf(last.args[1]) > Cardinality(DistinctBooksOf(last.args[1]))
    /\ last.out[1].total_requests = 2 + ItemsOf(last.args[1])

\* C7: a composite graph request of the GraphQL client sends exactly one
\* request and reports total_requests = 1, whatever the customer's orders and
\* items or the author's books.
C7_GraphQLOneRequest ==
    last.op \in {"gql_get_customer_order_summary", "gql_get_author_with_books"}
    => /\ last.out[1].total_requests = 1
       /\ Len(last.out[1].requests) = 1

\* a summary was fetched in one request for a customer with several orders
\* and items
C7_Witness ==
    /\ last.op = "gql_get_customer_order_summary"
    /\ ItemsOf(last.args[1]) >= 3
    /\ last.out[1].total_requests = 1

FirstN(seq, n) == SubSeq(seq, 1, IF n < Len(seq) THEN n ELSE Len(seq))

\* C9: a list query given a filter and a limit N returns the first N entries,
\* in the order of the collection, of the entities that pass the filters given.
C9_LimitAfterFilter ==
    /\ (/\ last.op = "query_books"
        /\ last.args[1] # <<>>
        /\ (last.args[2] # <<>> \/ last.args[3] # <<>>))
       => LET a == last.args[2]
              g == last.args[3]
              pass == SelectSeq(books, LAMBDA b :
                          /\ (a # <<>> => b.author_id = a[1])
                          /\ (g # <<>> => b.genre = g[1]))
          IN  last.out = FirstN(pass, last.args[1][1])
    /\ (/\ last.op = "query_orders"
        /\ last.args[1] # <<>>
        /\ (last.args[2] # <<>> \/ last.args[3] # <<>>))
       => LET c == last.args[2]
              s == last.args[3]
              pass == SelectSeq(orders, LAMBDA o :
                          /\ (c # <<>> => o.customer_id = c[1])
                          /\ (s # <<>> => OrderStatus(o) = s[1]))
          IN  last.out = FirstN(pass, last.args[1][1])


\* C11: every step leaves each existing order in place with the id,
\* customer_id, book_ids and total_amount it had, whatever is created, updated
\* or deleted, the books it references included.
C11_OrderSnapshot ==
    [][\A i \in 1..Len(orders) :
          /\ i <= Len(orders')
          /\ orders'[i].id = orders[i].id
          /\ orders'[i].customer_id = orders[i].customer_id
          /\ orders'[i].book_ids = orders[i].book_ids
          /\ orders'[i].total_amount = orders[i].total_amount]_vars

\* a book of the first seed order was repriced or deleted, and the order still
\* carries 62.98 although its books no longer sum to that
C11_Witness ==
    /\ last.op \in {"update", "delete"} /\ last.kind = "books" /\ last.ok
    /\ orders[1].total_amount = 6298
    /\ SumOfPrices(orders[1].book_ids) # 6298


\* C12: a lookup by id returns the entity of that kind carrying that id when
\* the collection holds one, and None when it holds none; it never returns an
\* entity with another id.
C12_GetById ==
    last.op = "get_by_id" =>
        LET coll == Coll(last.args[1])
            id == last.args[2]
            found == last.out[1]
        IN  IF id \in Ids(coll)
            THEN found \in Range(coll) /\ found.id = id
            ELSE found = None

\* book 1 was deleted and is looked up afterwards: absent
C12_Witness ==
    /\ last.op = "get_by_id" /\ last.args = <<"books", 1>>
    /\ 1 \notin Ids(books)
    /\ last.out = <<None>>


\* C13: a book is created only for an author_id that names an existing
\* author; with any other author_id the create fails and books is unchanged.
C13_CreateBookChecksAuthor ==
    (last.op = "create" /\ last.kind = "books" /\ last.ok) =>
        last.args[1] \in Ids(authors)

\* C14: an order is created only when its customer_id names an existing
\* customer and every entry of book_ids names an existing book; otherwise the
\* create fails and orders is unchanged.
C14_CreateOrderChecksReferences ==
    (last.op = "create" /\ last.kind = "orders" /\ last.ok) =>
        /\ last.args[1] \in Ids(customers)
        /\ \A i \in 1..Len(last.args[2]) : last.args[2][i] \in Ids(books)


\* C15: a create, update or delete of one kind leaves the collections of the
\* three other kinds unchanged; in particular deleting an author or a book
\* removes no book or order that references it.
C15_OwnCollectionOnly ==
    [][\A k \in Kinds :
          (last'.op \in {"create", "update", "delete"} /\ last'.kind = k) =>
              \A j \in Kinds \ {k} : Coll(j)' = Coll(j)]_vars

\* an author was deleted and a book still names it; a book was created before
C15_Witness ==
    /\ last.op = "delete" /\ last.kind = "authors" /\ last.ok
    /\ \E i \in 1..Len(books) : books[i].author_id = last.id
    /\ issued["books"] # {}


\* C16: when a create returns entity e, get_all of that kind afterwards is
\* get_all before followed by e, and get_by_id of e.id yields e itself.
C16_CreateAppends ==
    [][\A k \in Kinds :
          (last'.op = "create" /\ last'.kind = k /\ last'.ok) =>
              LET e == last'.out[1]
              IN  /\ get_all(k)' = Append(get_all(k), e)
                  /\ get_by_id(get_all(k)', e.id) = e]_vars

\* a customer was created after customer 1 was deleted: the list is the three
\* remaining customers in their order, then the new one
C16_Witness ==
    /\ last.op = "create" /\ last.kind = "customers" /\ last.ok
    /\ Len(customers) = 4
    /\ customers[1].id = 2
    /\ customers[4] = last.out[1]


StoreReads ==
    {"get_all", "get_by_id", "get_books_by_author", "get_books_by_genre",
     "get_orders_by_customer", "get_author_for_book", "get_customer_for_order",
     "get_books_for_order"}

\* C17: a read or traversal of the store leaves the four collections as they
\* were, and the same read with the same argument made twice in a row returns
\* the same result.
C17_ReadsArePure ==
    [][last'.op \in StoreReads =>
          /\ store' = store
          /\ (last.op = last'.op /\ last.args = last'.args) => last'.out = last.out]_vars

\* after an order was placed for customer 1, the customer's orders are read:
\* three of them, and the six orders are still in the store
C17_Witness ==
    /\ last.op = "get_orders_by_customer" /\ last.args = <<1>>
    /\ Len(last.out) = 3
    /\ Len(orders) = 6


\* C18: for a book whose author_id names no author and an order whose
\* customer_id names no customer, get_author_for_book / get_customer_for_order
\* return None, the REST view asked to include the author / customer has no
\* "author" / "customer" entry, and Book.author / Order.customer resolve to null.
C18_DanglingReferenceIsAbsent ==
    /\ (last.op \in {"get_author_for_book", "Book.author"}
            /\ last.args[1].author_id \notin Ids(authors))
       => last.out = <<None>>
    /\ (last.op \in {"get_customer_for_order", "Order.customer"}
            /\ last.args[1].customer_id \notin Ids(customers))
       => last.out = <<None>>
    /\ (last.op = "rest_get_book" /\ last.args[2] /\ last.out[1].status = 200
            /\ last.out[1].body.author_id \notin Ids(authors))
       => "author" \notin DOMAIN last.out[1].body
    /\ (last.op = "rest_get_order" /\ last.args[2] /\ last.out[1].status = 200
            /\ last.out[1].body.customer_id \notin Ids(customers))
       => "customer" \notin DOMAIN last.out[1].body

\* author 1 was deleted and book 1, which still names it, is fetched with
\* include_author
C18_Witness ==
    /\ last.op = "rest_get_book" /\ last.args = <<1, TRUE>>
    /\ last.out[1].status = 200
    /\ 1 \notin Ids(authors)
    /\ "author" \notin DOMAIN last.out[1].body


\* the collection in which each REST route looks up the id of its path
PathKind ==
    [rest_get_book |-> "books", rest_get_order |-> "orders",
     rest_get_author |-> "authors", rest_get_author_books |-> "authors",
     rest_get_customer |-> "customers", rest_get_customer_orders |-> "customers"]

RequiredFields ==
    [rest_create_book |-> RequiredBookFields,
     rest_create_customer |-> RequiredCustomerFields,
     rest_create_order |-> RequiredOrderFields]

C20_GenreFilterIgnoresCase ==
    /\ last.op = "get_books_by_genre" =>
           last.out = SelectSeq(books,
                          LAMBDA book : Lower(book.genre) = Lower(last.args[1]))
    /\ (last.op = "query_books" /\ last.args[1] = <<>> /\ last.args[2] = <<>>
            /\ last.args[3] # <<>>) =>
           last.out = SelectSeq(books,
                          LAMBDA book : Lower(book.genre) = Lower(last.args[3][1]))
    /\ (last.op = "query_orders" /\ last.args[1] = <<>> /\ last.args[2] = <<>>
            /\ last.args[3] # <<>>) =>
           last.out = SelectSeq(orders,
                          LAMBDA order : OrderStatus(order) = last.args[3][1])


\* C21: a list query given limit N returns the first min(N, length) entries
\* of the sequence it would return without a limit, so limit 0 returns the
\* empty sequence; without a limit it returns the whole sequence.
C21_LimitTruncates ==
    /\ last.op \in {"query_authors", "query_customers"} =>
           LET all == IF last.op = "query_authors" THEN authors ELSE customers
           IN  last.out = IF last.args[1] = <<>> THEN all
                          ELSE FirstN(all, last.args[1][1])
    /\ (last.op \in {"query_books", "query_orders"}
            /\ last.args[2] = <<>> /\ last.args[3] = <<>>) =>
           LET all == IF last.op = "query_books" THEN books ELSE orders
           IN  last.out = IF last.args[1] = <<>> THEN all
                          ELSE FirstN(all, last.args[1][1])


\* C22: a step changes the status of an order only from pending to shipped or
\* from pending to cancelled, and an update_order_status or cancel_order that
\* was rejected leaves the orders and their statuses as they were.
C22_StatusTransitions ==
    [][/\ \A id \in DOMAIN statuses :
             statuses'[id] # statuses[id] =>
                 /\ statuses[id] = "pending"
                 /\ statuses'[id] \in {"shipped", "cancelled"}
       /\ (last'.op \in {"update_order_status", "cancel_order"} /\ ~last'.ok) =>
             /\ orders' = orders
             /\ statuses' = statuses]_vars

\* order 1 was shipped, and cancelling it afterwards was rejected
C22_Witness ==
    /\ last.op = "cancel_order" /\ last.id = 1 /\ ~last.ok
    /\ statuses[1] = "shipped"


IdsDistinct(coll) ==
    \A i \in 1..Len(coll), j \in 1..Len(coll) : coll[i].id = coll[j].id => i = j

\* C23: two create calls that have both read the largest id of the same
\* collection contents, neither having appended yet, hold the same new id; as
\* long as no call started while another was in flight, ids stay unique.
C23_UnserializedCreatesRace ==
    /\ \A t \in Threads, u \in Threads :
          (InFlight(t) /\ InFlight(u) /\ inflight[t].seen = inflight[u].seen) =>
              inflight[t].new_id = inflight[u].new_id
    /\ ~overlapped => IdsDistinct(customers)

\* both threads read the largest id 4 before either appended: two customers
\* with id 5
C23_Witness ==
    /\ overlapped
    /\ \A t \in Threads : ~InFlight(t)
    /\ \E i \in 1..Len(customers), j \in 1..Len(customers) :
          i # j /\ customers[i].id = 5 /\ customers[j].id = 5


\* the relation field each resolver serves
RelationField ==
    [x \in {"Author.books", "Book.author", "Customer.orders", "Order.customer",
            "OrderItem.book"} |->
        CASE x = "Author.books" -> "books"
          [] x = "Book.author" -> "author"
          [] x = "Customer.orders" -> "orders"
          [] x = "Order.customer" -> "customer"
          [] x = "OrderItem.book" -> "book"]

\* C24: while a graph query is resolved, a store lookup for a relation is made
\* only at a path the query selects, and a relation field the query selects
\* nowhere is never looked up; a relation selected on the root entity is
\* looked up.
C24_RelationsResolvedWhenSelected ==
    last.op = "graph_query" =>
        LET sel == last.args[3]
            made == last.out
        IN  /\ \A i \in 2..Len(made) :
                  /\ made[i].rel \in DOMAIN RelationField
                  /\ made[i].path \in sel
                  /\ made[i].path[Len(made[i].path)] = RelationField[made[i].rel]
            /\ made[1].path = <<>>
            /\ \A p \in sel :
                  (/\ Len(p) = 1
                   /\ \E x \in DOMAIN RelationField : RelationField[x] = p[1]
                   /\ RootEntity(last.args[1], last.args[2]) # None) =>
                      \E i \in 2..Len(made) : made[i].path = p

\* customer 1 is asked for with its orders and their items, but not the
\* items' books: one lookup of the customer, one of its orders, none of books
C24_Witness ==
    /\ last.op = "graph_query"
    /\ last.args = <<"customer", 1, {<<"orders">>, <<"orders", "items">>}>>
    /\ Len(last.out) = 2
    /\ last.out[2].rel = "Customer.orders"


\* C25: search_books returns, in stored order, the books whose title contains
\* the query with letter case ignored, or whose description is present and
\* contains it, cut to the first limit entries (10 when the limit is left out).
C25_SearchBooks ==
    last.op = "search_books" =>
        LET query == last.args[1]
            limit == IF last.args[2] THEN last.args[3] ELSE DefaultSearchLimit
            hits == SelectSeq(books, LAMBDA book :
                        \/ Contains(LowerText(book.title), LowerText(query))
                        \/ /\ "description" \in DOMAIN book
                           /\ Contains(LowerText(book.description), LowerText(query)))
        IN  last.out = FirstN(hits, limit)


RECURSIVE SumOfContentLengths(_)
SumOfContentLengths(requests) ==
    IF requests = <<>> THEN 0
    ELSE ContentLength(Head(requests)) + SumOfContentLengths(Tail(requests))

RestComposites ==
    {"rest_get_author_with_books", "rest_get_customer_order_summary",
     "rest_search_books_with_authors"}

\* C26: in each REST composite fetch, total_requests is the number of
\* requests sent and total_bytes is the sum of the sizes of the responses to
\* exactly those requests, each counted once.
C26_BytesOfCountedRequests ==
    last.op \in RestComposites =>
        /\ last.out[1].total_requests = Len(last.out[1].requests)
        /\ last.out[1].total_bytes = SumOfContentLengths(last.out[1].requests)

\* customer 1's summary after an order with a repeated book was added: seven
\* requests, the repeated book's response counted twice in the bytes
C26_Witness ==
    /\ last.op = "rest_get_customer_order_summary" /\ last.args = <<1>>
    /\ last.out[1].total_requests = 7
    /\ last.out[1].total_bytes = 80 + (2 + 120 * 3) + 150 * 5


\* C29: search_books_with_authors sends 1 + B requests for a search that
\* answered with B books, the search and then one author request per book in
\* order, also for books of the same author; get_author_with_books sends
\* exactly 2 requests.
C29_RestSearchRequests ==
    /\ last.op = "rest_search_books_with_authors" =>
           LET books_data == last.args[1]
               sent == last.out[1].requests
           IN  /\ last.out[1].total_requests = 1 + Len(books_data)
               /\ Len(sent) = 1 + Len(books_data)
               /\ \A i \in 1..Len(books_data) :
                     sent[i + 1] = <<"GET", "authors", books_data[i].author_id>>
    /\ last.op = "rest_get_author_with_books" =>
           /\ last.out[1].total_requests = 2
           /\ Len(last.out[1].requests) = 2

\* the search answered with author 1's books, three of them once another was
\* created: four requests, three of them for author 1
C29_Witness ==
    /\ last.op = "rest_search_books_with_authors"
    /\ Len(last.args[1]) = 3
    /\ \A i \in 1..3 : last.args[1][i].author_id = 1
    /\ last.out[1].total_requests = 4


\* C27: POST /api/orders answers 400 naming customer_id when the body lacks
\* it, else 400 naming book_ids when the body lacks that, else 404 when the
\* customer is unknown, else 404 naming the first entry of book_ids that is no
\* book's id, and leaves orders unchanged in all four cases; otherwise it
\* answers 201 and orders grows by exactly the order it returns.
C27_RestCreateOrderChecks ==
    [][last'.op = "rest_create_order" =>
          LET data == last'.args[1]
              response == last'.out[1]
          IN  IF "customer_id" \notin DOMAIN data
              THEN /\ response.status = 400 /\ response.body.field = "customer_id"
                   /\ orders' = orders
              ELSE IF "book_ids" \notin DOMAIN data
              THEN /\ response.status = 400 /\ response.body.field = "book_ids"
                   /\ orders' = orders
              ELSE IF data.customer_id \notin Ids(customers)
              THEN /\ response.status = 404
                   /\ response.body.error = "Customer not found"
                   /\ orders' = orders
              ELSE IF \E i \in 1..Len(data.book_ids) : data.book_ids[i] \notin Ids(books)
              THEN /\ response.status = 404
                   /\ \E i \in 1..Len(data.book_ids) :
                         /\ data.book_ids[i] \notin Ids(books)
                         /\ \A j \in 1..(i - 1) : data.book_ids[j] \in Ids(books)
                         /\ response.body.book_id = data.book_ids[i]
                   /\ orders' = orders
              ELSE /\ response.status = 201
                   /\ Len(orders') = Len(orders) + 1
                   /\ SubSeq(orders', 1, Len(orders)) = orders
                   /\ orders'[Len(orders')].id = response.body.id
                   /\ orders'[Len(orders')].customer_id = data.customer_id
                   /\ orders'[Len(orders')].book_ids = data.book_ids]_vars

\* book 1 was deleted; an order for books 10 and 1, neither of which exists,
\* is refused naming 10, the first of them
C27_Witness ==
    /\ last.op = "rest_create_order"
    /\ "book_ids" \in DOMAIN last.args[1]
    /\ last.args[1].book_ids = <<10, 1>>
    /\ Ids(books) \cap {1, 10} = {}
    /\ last.out[1].status = 404
    /\ last.out[1].body.book_id = 10


\* what C28 says of the view of one order
OrderViewAsClaimed(view, order, include_customer, include_books) ==
    /\ "books" \in DOMAIN view <=>
           (include_books /\ \E i \in 1..Len(order.book_ids) :
                                order.book_ids[i] \in Ids(books))
    /\ "customer" \in DOMAIN view <=>
           (include_customer /\ order.customer_id \in Ids(customers))
    /\ "books" \in DOMAIN view => view.books = get_books_for_order(order)

\* C28: the view of an order from GET /api/orders/<id> and from
\* GET /api/customers/<id>/orders has a 'books' entry exactly when
\* include_books is set and some id of book_ids names a book, and then it
\* lists get_books_for_order(order); it has a 'customer' entry exactly when
\* include_customer is set and the customer exists.
C28_RestOrderView ==
    /\ (last.op = "rest_get_order" /\ last.out[1].status = 200) =>
           OrderViewAsClaimed(last.out[1].body, get_order_by_id(last.args[1]),
                              last.args[2], last.args[3])
    /\ (last.op = "rest_get_customer_orders" /\ last.out[1].status = 200) =>
           LET found == get_orders_by_customer(last.args[1])
               views == last.out[1].body
           IN  /\ Len(views) = Len(found)
               /\ \A i \in 1..Len(found) :
                     OrderViewAsClaimed(views[i], found[i], FALSE, last.args[2])

\* book 3 was deleted: of customer 1's orders read with include_books, the
\* first lists its two books and the second, whose only book is gone, has no
\* 'books' entry
C28_Witness ==
    /\ last.op = "rest_get_customer_orders" /\ last.args = <<1, TRUE>>
    /\ last.out[1].status = 200
    /\ 3 \notin Ids(books)
    /\ "books" \in DOMAIN last.out[1].body[1]
    /\ "books" \notin DOMAIN last.out[1].body[2]


(* ------------------------- socket demonstration ------------------------ *)

\* the statements of demonstrate_socket_basics with join() moved before the
\* send
MainProgramJoiningFirst ==
    <<"socket", "setsockopt", "bind", "listen", "start", "sleep",
      "client_socket", "connect", "getsockname", "getpeername",
      "join", "send", "recv", "close_client", "close_server">>

\* the socket and thread statements of demonstrate_socket_basics, in order
MainProgram ==
    <<"socket", "setsockopt", "bind", "listen", "start", "sleep",
      "client_socket", "connect", "getsockname", "getpeername",
      "send", "recv", "close_client", "join", "close_server">>

\* the statements of simple_server, in order
ServerProgram ==
    <<"accept", "getsockname", "getpeername", "recv", "send", "close">>

\* position of the main thread after an exception left the function
Raised == 0

MainAt(stmt) ==
    /\ main_pc \in 1..Len(MainProgram)
    /\ MainProgram[main_pc] = stmt

ServerAt(stmt) ==
    /\ server_pc \in 1..Len(ServerProgram)
    /\ ServerProgram[server_pc] = stmt

MainReturned == main_pc = Len(MainProgram) + 1

ServerExited == server_pc = Len(ServerProgram) + 1

Sent(channel, what) == [channel EXCEPT !.wire = Append(@, what)]

Taken(channel) == [channel EXCEPT !.buffer = Tail(@)]

bookstore == <<authors, books, customers, orders, statuses, issued, nops, last,
               races>>

\* server_socket = socket.socket(AF_INET, SOCK_STREAM)
main_socket ==
    /\ MainAt("socket")
    /\ server_socket' = "created"
    /\ main_pc' = main_pc + 1
    /\ UNCHANGED <<server_pc, client_socket, handshake, accept_queue, client_conn,
                   to_server, to_client, events, bookstore>>

\* setsockopt(SO_REUSEADDR), time.sleep(0.5), and the client's getsockname()
\* and getpeername(), which need the connection
main_local(stmt) ==
    /\ MainAt(stmt)
    /\ stmt \in {"getsockname", "getpeername"} => client_socket = "connected"
    /\ main_pc' = main_pc + 1
    /\ UNCHANGED <<server_pc, server_socket, client_socket, handshake, accept_queue,
                   client_conn, to_server, to_client, events, bookstore>>

\* server_socket.bind((local_ip, server_port))
main_bind ==
    /\ MainAt("bind")
    /\ server_socket = "created"
    /\ server_socket' = "bound"
    /\ main_pc' = main_pc + 1
    /\ UNCHANGED <<server_pc, client_socket, handshake, accept_queue, client_conn,
                   to_server, to_client, events, bookstore>>

\* server_socket.listen(1)
main_listen ==
    /\ MainAt("listen")
    /\ server_socket = "bound"
    /\ server_socket' = "listening"
    /\ main_pc' = main_pc + 1
    /\ UNCHANGED <<server_pc, client_socket, handshake, accept_queue, client_conn,
                   to_server, to_client, events, bookstore>>

\* server_thread = threading.Thread(target=simple_server); server_thread.start()
main_start ==
    /\ MainAt("start")
    /\ server_pc = 0
    /\ server_pc' = 1
    /\ main_pc' = main_pc + 1
    /\ UNCHANGED <<server_socket, client_socket, handshake, accept_queue,
                   client_conn, to_server, to_client, events, bookstore>>

\* client_socket = socket.socket(AF_INET, SOCK_STREAM)
main_client_socket ==
    /\ MainAt("client_socket")
    /\ client_socket' = "created"
    /\ main_pc' = main_pc + 1
    /\ UNCHANGED <<server_pc, server_socket, handshake, accept_queue, client_conn,
                   to_server, to_client, events, bookstore>>

\* client_socket.connect(...) is called: the SYN leaves and the call blocks
main_connect_call ==
    /\ MainAt("connect")
    /\ client_socket = "created"
    /\ client_socket' = "syn_sent"
    /\ handshake' = "syn"
    /\ UNCHANGED <<main_pc, server_pc, server_socket, accept_queue, client_conn,
                   to_server, to_client, events, bookstore>>

\* connect() returns once the answer to the SYN arrived, or raises
\* ConnectionRefusedError, which nothing in the function catches
main_connect_return ==
    /\ MainAt("connect")
    /\ client_socket \in {"connected", "refused"}
    /\ main_pc' = IF client_socket = "connected" THEN main_pc + 1 ELSE Raised
    /\ events' = Append(events, IF client_socket = "connected"
                                THEN "connect" ELSE "connect_raised")
    /\ UNCHANGED <<server_pc, server_socket, client_socket, handshake, accept_queue,
                   client_conn, to_server, to_client, bookstore>>

\* client_socket.send(message.encode())
main_send ==
    /\ MainAt("send")
    /\ client_socket = "connected"
    /\ to_server' = Sent(to_server, "data")
    /\ events' = Append(events, "client_send")
    /\ main_pc' = main_pc + 1
    /\ UNCHANGED <<server_pc, server_socket, client_socket, handshake, accept_queue,
                   client_conn, to_client, bookstore>>

\* response = client_socket.recv(1024): blocks until something arrived; the
\* end of the stream reads as an empty response
main_recv ==
    /\ MainAt("recv")
    /\ to_client.buffer # <<>>
    /\ to_client' = Taken(to_client)
    /\ events' = Append(events, IF Head(to_client.buffer) = "data"
                                THEN "client_recv" ELSE "client_recv_empty")
    /\ main_pc' = main_pc + 1
    /\ UNCHANGED <<server_pc, server_socket, client_socket, handshake, accept_queue,
                   client_conn, to_server, bookstore>>

\* client_socket.close()
main_close_client ==
    /\ MainAt("close_client")
    /\ client_socket' = "closed"
    /\ to_server' = Sent(to_server, "fin")
    /\ events' = Append(events, "client_close")
    /\ main_pc' = main_pc + 1
    /\ UNCHANGED <<server_pc, server_socket, handshake, accept_queue, client_conn,
                   to_client, bookstore>>

\* server_thread.join(): blocks until simple_server returned
main_join ==
    /\ MainAt("join")
    /\ ServerExited
    /\ main_pc' = main_pc + 1
    /\ UNCHANGED <<server_pc, server_socket, client_socket, handshake, accept_queue,
                   client_conn, to_server, to_client, events, bookstore>>

\* server_socket.close()
main_close_server ==
    /\ MainAt("close_server")
    /\ server_socket' = "closed"
    /\ main_pc' = main_pc + 1
    /\ UNCHANGED <<server_pc, client_socket, handshake, accept_queue, client_conn,
                   to_server, to_client, events, bookstore>>

\* client_conn, client_address = server_socket.accept(): blocks until a
\* completed connection is queued on the listening socket
server_accept ==
    /\ ServerAt("accept")
    /\ accept_queue > 0
    /\ accept_queue' = accept_queue - 1
    /\ client_conn' = "open"
    /\ events' = Append(events, "accept")
    /\ server_pc' = server_pc + 1
    /\ UNCHANGED <<main_pc, server_socket, client_socket, handshake, to_server,
                   to_client, bookstore>>

\* client_conn.getsockname(), client_conn.getpeername()
server_local(stmt) ==
    /\ ServerAt(stmt)
    /\ stmt \in {"getsockname", "getpeername"}
    /\ server_pc' = server_pc + 1
    /\ UNCHANGED <<main_pc, server_socket, client_socket, handshake, accept_queue,
                   client_conn, to_server, to_client, events, bookstore>>

\* data = client_conn.recv(1024).decode()
server_recv ==
    /\ ServerAt("recv")
    /\ to_server.buffer # <<>>
    /\ to_server' = Taken(to_server)
    /\ events' = Append(events, IF Head(to_server.buffer) = "data"
                                THEN "server_recv" ELSE "server_recv_empty")
    /\ server_pc' = server_pc + 1
    /\ UNCHANGED <<main_pc, server_socket, client_socket, handshake, accept_queue,
                   client_conn, to_client, bookstore>>

\* client_conn.send(response.encode())
server_send ==
    /\ ServerAt("send")
    /\ to_client' = Sent(to_client, "data")
    /\ events' = Append(events, "server_send")
    /\ server_pc' = server_pc + 1
    /\ UNCHANGED <<main_pc, server_socket, client_socket, handshake, accept_queue,
                   client_conn, to_server, bookstore>>

\* client_conn.close()
server_close ==
    /\ ServerAt("close")
    /\ client_conn' = "closed"
    /\ to_client' = Sent(to_client, "fin")
    /\ events' = Append(events, "server_close")
    /\ server_pc' = server_pc + 1
    /\ UNCHANGED <<main_pc, server_socket, client_socket, handshake, accept_queue,
                   to_server, bookstore>>

\* the SYN reaches the server's host: a listening socket answers SYN-ACK,
\* anything else answers RST
syn_arrives ==
    /\ handshake = "syn"
    /\ handshake' = IF server_socket = "listening" THEN "syn_ack" ELSE "rst"
    /\ UNCHANGED <<main_pc, server_pc, server_socket, client_socket, accept_queue,
                   client_conn, to_server, to_client, events, bookstore>>

\* the answer reaches the client's host: the client side is connected and
\* acknowledges, or the connection was refused
answer_arrives ==
    /\ handshake \in {"syn_ack", "rst"}
    /\ client_socket' = IF handshake = "syn_ack" THEN "connected" ELSE "refused"
    /\ handshake' = IF handshake = "syn_ack" THEN "ack" ELSE "reset"
    /\ UNCHANGED <<main_pc, server_pc, server_socket, accept_queue, client_conn,
                   to_server, to_client, events, bookstore>>

\* the ACK reaches the server's host: the completed connection is queued for
\* accept()
ack_arrives ==
    /\ handshake = "ack"
    /\ handshake' = "established"
    /\ accept_queue' = accept_queue + 1
    /\ UNCHANGED <<main_pc, server_pc, server_socket, client_socket, client_conn,
                   to_server, to_client, events, bookstore>>

\* what the client sent arrives, in order, after its ACK
deliver_to_server ==
    /\ handshake = "established"
    /\ to_server.wire # <<>>
    /\ to_server' = [wire |-> Tail(to_server.wire),
                     buffer |-> Append(to_server.buffer, Head(to_server.wire))]
    /\ UNCHANGED <<main_pc, server_pc, server_socket, client_socket, handshake,
                   accept_queue, client_conn, to_client, events, bookstore>>

\* what the server sent arrives, in order
deliver_to_client ==
    /\ to_client.wire # <<>>
    /\ to_client' = [wire |-> Tail(to_client.wire),
                     buffer |-> Append(to_client.buffer, Head(to_client.wire))]
    /\ UNCHANGED <<main_pc, server_pc, server_socket, client_socket, handshake,
                   accept_queue, client_conn, to_server, events, bookstore>>

MainStep ==
    \/ main_socket
    \/ \E stmt \in {"setsockopt", "sleep", "getsockname", "getpeername"} :
           main_local(stmt)
    \/ main_bind
    \/ main_listen
    \/ main_start
    \/ main_client_socket
    \/ main_connect_call
    \/ main_connect_return
    \/ main_send
    \/ main_recv
    \/ main_close_client
    \/ main_join
    \/ main_close_server

ServerStep ==
    \/ server_accept
    \/ \E stmt \in {"getsockname", "getpeername"} : server_local(stmt)
    \/ server_recv
    \/ server_send
    \/ server_close

NetworkStep ==
    \/ syn_arrives
    \/ answer_arrives
    \/ ack_arrives
    \/ deliver_to_server
    \/ deliver_to_client

NextSocket ==
    \/ MainStep
    \/ ServerStep
    \/ NetworkStep

SpecSocket == Init /\ [][NextSocket]_vars

\* a thread that can run is scheduled, and the loopback stack delivers what
\* was sent
SpecSocketFair ==
    /\ SpecSocket
    /\ WF_vars(MainStep)
    /\ WF_vars(ServerStep)
    /\ WF_vars(NetworkStep)


\* the data exchange, in the order the claim gives it
Exchange == <<"client_send", "server_recv", "server_send", "client_recv">>

IsExchangeEvent(e) == \E i \in 1..Len(Exchange) : Exchange[i] = e

IsAccept(e) == e = "accept"

\* the server socket has been put in the listening state
HasListened == server_socket \in {"listening", "closed"}

AllSocketsClosed ==
    /\ client_socket = "closed"
    /\ client_conn = "closed"
    /\ server_socket = "closed"

SocketDemoSafe ==
    \* listening before the server thread exists and before the client connects
    /\ server_pc # 0 => HasListened
    /\ client_socket \notin {"none", "created"} => HasListened
    /\ handshake = "syn" => server_socket = "listening"
    \* connect() succeeds
    /\ client_socket # "refused"
    /\ handshake \notin {"rst", "reset"}
    /\ main_pc # Raised
    \* send, receive, reply, receive, in this order, each read returning data
    /\ LET exchanged == SelectSeq(events, IsExchangeEvent)
       IN  /\ Len(exchanged) <= Len(Exchange)
           /\ exchanged = SubSeq(Exchange, 1, Len(exchanged))
    /\ \A i \in 1..Len(events) :
           events[i] \notin {"server_recv_empty", "client_recv_empty"}
    \* one connection accepted
    /\ Len(SelectSeq(events, IsAccept)) <= 1
    /\ ServerExited =>
           /\ Len(SelectSeq(events, IsAccept)) = 1
           /\ client_conn = "closed"
    \* join() returns only after simple_server did, and the listening socket is
    \* closed after that
    /\ server_socket = "closed" => ServerExited
    /\ MainReturned =>
           /\ ServerExited
           /\ AllSocketsClosed
           /\ SelectSeq(events, IsExchangeEvent) = Exchange

SocketDemoDone ==
    /\ MainReturned
    /\ ServerExited
    /\ AllSocketsClosed

\* C30: in demonstrate_socket_basics the server socket is listening before
\* simple_server is started and before the client connects, so connect()
\* succeeds in every interleaving; the exchange is client send, server
\* receive, server reply, client receive; one connection is accepted; and
\* every run ends with both threads finished and the three sockets closed.
C30_SocketDemoTerminates == []SocketDemoSafe /\ <>[]SocketDemoDone

\* a finished run in which the client had connected and sent its message
\* before the server thread got to accept the connection
C30_Witness ==
    /\ SocketDemoDone
    /\ SubSeq(events, 1, 3) = <<"connect", "client_send", "accept">>

====
